---- MODULE Spec2Model ----
(***************************************************************************)
(* Model of the speaker-profile backend: the text utilities of             *)
(* app/utils/text_cleaning.py (chunk_text, remove_duplicates), the         *)
(* aggregation of app/services/openai_service.py                           *)
(* (generate_speaker_profile) and the orchestration of                     *)
(* app/routers/profiles.py (create_profile).                               *)
(*                                                                         *)
(* A Python str is a sequence of one-character strings.                    *)
(***************************************************************************)
EXTENDS Integers, Sequences, FiniteSets, TLC

VARIABLES
    \* ---- text utilities (SpecText) ----
    text,          \* the str handed to the text function
    op,            \* which function has been applied: "none" | "chunk_text" | "remove_duplicates"
    max_tokens,    \* the max_tokens argument of the chunk_text call
    result,        \* chunk_text: the returned list; remove_duplicates: <<the returned str>>
    natoms,        \* number of pieces the raw text of the normalizer was built from
    pdf,           \* process_pdf_for_profile: position, current text, strategies invoked, results
    crawl,         \* crawl_website: position, arguments, locals, fetches made, result
    yt,            \* process_youtube_channel: position, argument, API calls made, result
    scan,          \* is_scanned_pdf: what its two parsers read, where it failed, its return value
    auth,          \* get_current_user: the users table, the token, what the call gave
    store,         \* storage: stored objects, upload results, the path create_profile asks for
    \* ---- create_profile (Spec) ----
    pc,            \* position in create_profile
    request,       \* the request: number of pdf_urls and which source URLs are given
    pdf_i,         \* number of pdf_urls the loop has consumed
    raw_data,      \* the RawProfileData container
    trace,         \* history: which adapters were invoked and what each returned
    gsp,           \* what generate_speaker_profile did: blob built, synthesizer called
    profile_data,  \* the dict generate_speaker_profile returned
    inserted,      \* number of records inserted into the profiles table
    response       \* what the caller of create_profile receives

textVars == <<text, op, max_tokens, result, natoms>>
serviceVars == <<pdf, crawl, yt, scan, auth, store>>
otherVars == <<scan, auth, store>>
profileVars == <<pc, request, pdf_i, raw_data, trace, gsp, profile_data, inserted, response>>
vars == <<text, op, max_tokens, result, natoms, pdf, crawl, yt, scan, auth, store,
          pc, request, pdf_i, raw_data, trace, gsp, profile_data, inserted, response>>

(***************************************************************************)
(* Bounds of the model.                                                    *)
(***************************************************************************)
MaxParas == 3
MaxTokens == 2
MaxPdfs == 2

(***************************************************************************)
(* Python str primitives.                                                  *)
(***************************************************************************)
NL == "\n"
SP == " "
\* the characters str.strip() removes that occur in the model's alphabet
Whitespace == {SP, NL}

IsBlank(s) == \A i \in 1..Len(s) : s[i] \in Whitespace

\* the element of a one-element set: in The({e(x) : x \in {v}}) the value v
\* is computed once, as a local variable's is
The(S) == CHOOSE x \in S : TRUE

\* s.strip()
Strip(s) ==
    IF IsBlank(s) THEN <<>>
    ELSE LET first == CHOOSE i \in 1..Len(s) :
                          /\ s[i] \notin Whitespace
                          /\ \A j \in 1..(i-1) : s[j] \in Whitespace
             last  == CHOOSE i \in 1..Len(s) :
                          /\ s[i] \notin Whitespace
                          /\ \A j \in (i+1)..Len(s) : s[j] \in Whitespace
         IN  SubSeq(s, first, last)

\* s.split('\n'): always at least one piece; "" gives [""]
RECURSIVE SplitFrom(_, _)
SplitFrom(s, i) ==
    LET at == {m \in i..Len(s) : s[m] = NL}
    IN  IF at = {} THEN <<SubSeq(s, i, Len(s))>>
        ELSE LET m == CHOOSE m \in at : \A j \in at : m <= j
             IN  <<SubSeq(s, i, m - 1)>> \o The({SplitFrom(s, n) : n \in {m + 1}})

Split(s) == SplitFrom(s, 1)

\* '\n'.join(pieces)
RECURSIVE Join(_)
Join(pieces) ==
    IF pieces = <<>> THEN <<>>
    ELSE IF Len(pieces) = 1 THEN pieces[1]
    ELSE pieces[1] \o <<NL>> \o Join(Tail(pieces))

(***************************************************************************)
(* remove_duplicates (text_cleaning.py:38-64).                             *)
(***************************************************************************)
\* [p.strip() for p in paragraphs if p.strip()]
RECURSIVE StripNonEmpty(_)
StripNonEmpty(paragraphs) ==
    IF paragraphs = <<>> THEN <<>>
    ELSE LET p == Strip(Head(paragraphs))
         IN  (IF p # <<>> THEN <<p>> ELSE <<>>) \o StripNonEmpty(Tail(paragraphs))

\* a mutant: the seen-set is never consulted
RECURSIVE UniqueLoopKeepAll(_, _, _)
UniqueLoopKeepAll(paragraphs, unique_paragraphs, seen_paragraphs) ==
    IF paragraphs = <<>> THEN unique_paragraphs
    ELSE UniqueLoopKeepAll(Tail(paragraphs), Append(unique_paragraphs, Head(paragraphs)),
                           seen_paragraphs)

\* the loop over paragraphs with unique_paragraphs and seen_paragraphs
RECURSIVE UniqueLoop(_, _, _)
UniqueLoop(paragraphs, unique_paragraphs, seen_paragraphs) ==
    IF paragraphs = <<>> THEN unique_paragraphs
    ELSE LET p == Head(paragraphs)
         IN  IF p \notin seen_paragraphs
             THEN UniqueLoop(Tail(paragraphs), Append(unique_paragraphs, p),
                             seen_paragraphs \cup {p})
             ELSE UniqueLoop(Tail(paragraphs), unique_paragraphs, seen_paragraphs)

remove_duplicates(t) == Join(UniqueLoop(StripNonEmpty(Split(t)), <<>>, {}))

(***************************************************************************)
(* chunk_text (text_cleaning.py:90-136).                                   *)
(***************************************************************************)
chars_per_token == 4

\* a mutant: the buffer is appended as it stands, trailing newline included
FlushUnstripped(chunks, current_chunk) ==
    IF current_chunk # <<>> THEN Append(chunks, current_chunk) ELSE chunks

Flush(chunks, current_chunk) ==
    IF current_chunk # <<>> THEN Append(chunks, Strip(current_chunk)) ELSE chunks

\* a mutant: the budget test forgets the length of the running buffer
RECURSIVE ChunkLoopNoBuffer(_, _, _, _)
ChunkLoopNoBuffer(paragraphs, chunks, current_chunk, max_chars) ==
    IF paragraphs = <<>> THEN Flush(chunks, current_chunk)
    ELSE LET paragraph == Head(paragraphs)
         IN  IF Len(paragraph) > max_chars
             THEN ChunkLoopNoBuffer(Tail(paragraphs), Flush(chunks, current_chunk),
                                    paragraph \o <<NL>>, max_chars)
             ELSE ChunkLoopNoBuffer(Tail(paragraphs), chunks,
                                    current_chunk \o paragraph \o <<NL>>, max_chars)

\* a mutant: a paragraph that would overflow the buffer is cut at the budget
RECURSIVE ChunkLoopCut(_, _, _, _)
ChunkLoopCut(paragraphs, chunks, current_chunk, max_chars) ==
    IF paragraphs = <<>> THEN Flush(chunks, current_chunk)
    ELSE LET paragraph == Head(paragraphs)
         IN  IF Len(current_chunk) + Len(paragraph) > max_chars
             THEN ChunkLoopCut(Tail(paragraphs), Flush(chunks, current_chunk),
                               SubSeq(paragraph, 1, max_chars) \o <<NL>>, max_chars)
             ELSE ChunkLoopCut(Tail(paragraphs), chunks,
                               current_chunk \o paragraph \o <<NL>>, max_chars)

\* the for loop of lines 119-130 and the final flush of lines 133-134
RECURSIVE ChunkLoop(_, _, _, _)
ChunkLoop(paragraphs, chunks, current_chunk, max_chars) ==
    IF paragraphs = <<>> THEN Flush(chunks, current_chunk)
    ELSE LET paragraph == Head(paragraphs)
         IN  IF Len(current_chunk) + Len(paragraph) > max_chars
             THEN ChunkLoop(Tail(paragraphs), Flush(chunks, current_chunk),
                            paragraph \o <<NL>>, max_chars)
             ELSE ChunkLoop(Tail(paragraphs), chunks,
                            current_chunk \o paragraph \o <<NL>>, max_chars)

chunk_text(t, mt) ==
    LET max_chars == mt * chars_per_token
    IN  IF Len(t) <= max_chars THEN <<t>>
        ELSE ChunkLoop(Split(t), <<>>, <<>>, max_chars)

(***************************************************************************)
(* The texts the text functions are applied to: up to MaxParas paragraphs, *)
(* each a run of letters with optional padding, joined by newlines.        *)
(***************************************************************************)
Rep(c, n) == [i \in 1..n |-> c]

\* run lengths: empty, short, and one more than a one-token budget
RunLens == {0, 1, 2, chars_per_token + 1}

ParaSet ==
    {Rep("a", n) : n \in RunLens}
      \cup {<<SP>> \o Rep("a", n) : n \in RunLens}
      \cup {Rep("a", n) \o <<SP>> : n \in RunLens \ {0}}

\* the adapter has not returned
NoCrawlResult == [returned |-> FALSE]

\* no PDF is being processed
PdfIdle ==
    [pc |-> "idle", text |-> <<>>, calls |-> <<>>, scanned |-> FALSE,
     raw_text |-> <<>>, processed_chunks |-> <<>>, temp_files_left |-> 0]

\* no crawl is running
CrawlIdle ==
    [pc |-> "idle", start_url |-> <<>>, max_pages |-> 0, visited |-> {},
     to_visit |-> <<>>, important_pages |-> <<>>, extracted_content |-> <<>>,
     current_url |-> <<>>, links |-> <<>>, fetches |-> 0, fetched |-> <<>>,
     iterations |-> 0, result |-> NoCrawlResult]

\* no channel is being processed
YoutubeIdle ==
    [pc |-> "idle", youtube_url |-> <<>>, api_calls |-> 0, result |-> NoCrawlResult]

\* is_scanned_pdf is not being called
ScanIdle ==
    [pc |-> "idle", pypdf2_pages |-> <<>>, fitz_pages |-> <<>>, failed_at |-> "none",
     result |-> FALSE, temp_files_left |-> 0]

\* no request is being authenticated
NoToken == [given |-> FALSE, valid |-> FALSE, sub |-> <<>>]
AuthIdle ==
    [pc |-> "idle", users |-> {}, token |-> NoToken, queried |-> FALSE,
     logged |-> FALSE, result |-> [kind |-> "none", id |-> 0]]

\* nothing stored, nothing asked for
StoreIdle ==
    [pc |-> "idle", objects |-> {}, uploads |-> <<>>, given |-> 0, pdf_url |-> <<>>,
     file_path |-> <<>>, pdf_bytes |-> <<>>, pdf_text |-> <<>>]

InitOthersIdle ==
    /\ scan = ScanIdle
    /\ auth = AuthIdle
    /\ store = StoreIdle

InitServiceIdle ==
    /\ pdf = PdfIdle
    /\ crawl = CrawlIdle
    /\ yt = YoutubeIdle
    /\ InitOthersIdle

InitProfileIdle ==
    /\ pc = "idle"
    /\ request = [n_pdfs |-> 0, youtube_url |-> FALSE, website_url |-> FALSE,
                  linkedin_url |-> FALSE]
    /\ pdf_i = 0
    /\ raw_data = <<>>
    /\ trace = <<>>
    /\ gsp = <<>>
    /\ profile_data = <<>>
    /\ inserted = 0
    /\ response = "none"

InitText ==
    /\ text \in ParaSet
    /\ op = "none"
    /\ max_tokens = 0
    /\ result = <<>>
    /\ natoms = 0
    /\ InitProfileIdle
    /\ InitServiceIdle

AppendParagraph(p) ==
    /\ op = "none"
    /\ Len(Split(text)) < MaxParas
    /\ text' = text \o <<NL>> \o p
    /\ UNCHANGED <<op, max_tokens, result, natoms>>
    /\ UNCHANGED <<profileVars, serviceVars>>

CallChunkText(mt) ==
    /\ op = "none"
    /\ op' = "chunk_text"
    /\ max_tokens' = mt
    /\ result' = chunk_text(text, mt)
    /\ UNCHANGED <<text, natoms>>
    /\ UNCHANGED <<profileVars, serviceVars>>

CallRemoveDuplicates ==
    /\ op = "none"
    /\ op' = "remove_duplicates"
    /\ result' = <<remove_duplicates(text)>>
    /\ UNCHANGED <<text, max_tokens, natoms>>
    /\ UNCHANGED <<profileVars, serviceVars>>

NextText ==
    \/ \E p \in ParaSet : AppendParagraph(p)
    \/ \E mt \in 1..MaxTokens : CallChunkText(mt)
    \/ CallRemoveDuplicates

SpecText == InitText /\ [][NextText]_vars

(***************************************************************************)
(* Values exchanged between create_profile, the adapters and               *)
(* generate_speaker_profile.  A Python dict is a record whose DOMAIN is    *)
(* its key set; None is the record NoneValue.                              *)
(***************************************************************************)
NoneValue == [none |-> TRUE]
IsNone(d) == "none" \in DOMAIN d

\* an uncaught exception leaving the guarded call
Raised == [raise |-> TRUE]

\* the single chunk process_text_for_ai returns: normalized text, possibly ""
ChunkVals == {<<>>, <<"a">>, <<"b">>}

\* process_text_for_ai returns a list of exactly one chunk
ProcessedTexts == {<<c>> : c \in ChunkVals}

ErrorDict == [error |-> "adapter error"]

\* process_pdf_for_profile: the chunk list of one PDF
PdfReturns == ProcessedTexts

\* process_youtube_channel: an error value or a dict with 'processed_text'
YoutubeReturns == {ErrorDict} \cup {[processed_text |-> t] : t \in ProcessedTexts}

\* crawl_website: an error value or a dict with 'processed_text'
WebsiteReturns == {ErrorDict} \cup {[processed_text |-> t] : t \in ProcessedTexts}

\* process_linkedin_profile: an error value, a dict with 'processed_text', or
\* (empty full_text) a dict with neither key
LinkedinReturns ==
    {ErrorDict, [username |-> "u"]} \cup {[processed_text |-> t] : t \in ProcessedTexts}

(***************************************************************************)
(* generate_speaker_profile (openai_service.py:13-95).                     *)
(***************************************************************************)
\* for text_chunk in chunks: all_text += text_chunk + "\n\n"
RECURSIVE AddChunks(_, _)
AddChunks(all_text, chunks) ==
    IF chunks = <<>> THEN all_text
    ELSE AddChunks(all_text \o Head(chunks) \o <<NL, NL>>, Tail(chunks))

\* if 'pdf_text' in data and data['pdf_text']: ...
AddPdfText(acc, pdf_text) ==
    IF pdf_text # <<>>
    THEN [acc EXCEPT !.all_text = AddChunks(acc.all_text, pdf_text)]
    ELSE acc

\* if key in data and 'processed_text' in data[key]: ...
\* ('processed_text' in None raises TypeError, which leaves the try block)
AddSource(acc, d) ==
    IF acc.raised THEN acc
    ELSE IF IsNone(d) THEN [acc EXCEPT !.raised = TRUE]
    ELSE IF "processed_text" \in DOMAIN d
         THEN [acc EXCEPT !.all_text = AddChunks(acc.all_text, d.processed_text)]
         ELSE acc

\* a mutant: the website block is appended before the YouTube block
BuildAllTextWebsiteFirst(data) ==
    AddSource(AddSource(AddSource(AddPdfText([all_text |-> <<>>, raised |-> FALSE],
                                             data.pdf_text),
                                  data.website_text),
                        data.youtube_data),
              data.linkedin_data)

\* lines 24-45: the blob, and whether building it raised
BuildAllText(data) ==
    AddSource(AddSource(AddSource(AddPdfText([all_text |-> <<>>, raised |-> FALSE],
                                             data.pdf_text),
                                  data.youtube_data),
                        data.website_text),
              data.linkedin_data)

NoTextError == [error |-> "No text data to process"]
ExceptionError == [error |-> "exception"]
UsableProfile == [name |-> "Speaker"]
\* parse_profile_text on a reply without the template (or None): the defaults
EmptyProfile == [name |-> ""]

\* what the chat-completion call and the parsing of its reply can give
SynthesizerResults == {UsableProfile, EmptyProfile, ExceptionError}

(***************************************************************************)
(* create_profile (profiles.py:22-136), one action per numbered step.      *)
(***************************************************************************)
Adapters == {"youtube", "website", "linkedin"}

EmptyRawData ==
    [pdf_text |-> <<>>, youtube_data |-> NoneValue, website_text |-> NoneValue,
     linkedin_data |-> NoneValue]

EmptyTrace ==
    [pdf_outcomes |-> <<>>, invoked |-> {}, raised |-> {},
     produced |-> EmptyRawData]

NoCall ==
    [called |-> FALSE, data |-> EmptyRawData, all_text |-> <<>>, raised |-> FALSE,
     synth_called |-> FALSE, synth_input |-> <<>>]

InitTextIdle ==
    /\ text = <<>>
    /\ op = "none"
    /\ max_tokens = 0
    /\ result = <<>>
    /\ natoms = 0

AfterPdfs(i, n) == IF i >= n THEN "youtube" ELSE "pdf"

Init ==
    /\ InitTextIdle
    /\ InitServiceIdle
    /\ request \in [n_pdfs : 0..MaxPdfs, youtube_url : BOOLEAN,
                    website_url : BOOLEAN, linkedin_url : BOOLEAN]
    /\ pc = AfterPdfs(0, request.n_pdfs)
    /\ pdf_i = 0
    /\ raw_data = EmptyRawData
    /\ trace = EmptyTrace
    /\ gsp = NoCall
    /\ profile_data = NoneValue
    /\ inserted = 0
    /\ response = "none"

\* a mutant: the exception is not caught at the adapter and reaches the
\* handler of lines 131-136
PropagateToCaller(next) ==
    /\ pc' = "done"
    /\ response' = "error"
    /\ raw_data' = EmptyRawData

\* the inner handlers (lines 54-55, 62-63, 70-71, 78-79): log and go on
CaughtAndLogged(next) ==
    /\ pc' = next
    /\ response' = response
    /\ raw_data' = raw_data

\* step 2, one iteration of the loop over pdf_urls (lines 42-55)
ProcessPdf ==
    /\ pc = "pdf"
    /\ pdf_i < request.n_pdfs
    /\ pdf_i' = pdf_i + 1
    /\ \E outcome \in {Raised, NoneValue} \cup {[chunks |-> t] : t \in PdfReturns} :
          IF outcome = Raised
          THEN /\ CaughtAndLogged(AfterPdfs(pdf_i + 1, request.n_pdfs))
               /\ trace' = [trace EXCEPT !.pdf_outcomes = Append(@, "raised")]
          ELSE IF IsNone(outcome)
          THEN \* download_file returned None: nothing to process
               /\ pc' = AfterPdfs(pdf_i + 1, request.n_pdfs)
               /\ raw_data' = raw_data
               /\ response' = response
               /\ trace' = [trace EXCEPT !.pdf_outcomes = Append(@, "missing")]
          ELSE /\ pc' = AfterPdfs(pdf_i + 1, request.n_pdfs)
               /\ raw_data' = [raw_data EXCEPT !.pdf_text = @ \o outcome.chunks]
               /\ response' = response
               /\ trace' = [trace EXCEPT !.pdf_outcomes = Append(@, "ok"),
                                         !.produced.pdf_text = @ \o outcome.chunks]
    /\ UNCHANGED <<request, gsp, profile_data, inserted>>
    /\ UNCHANGED <<textVars, serviceVars>>

\* steps 3-5: if the URL is given, call the adapter inside its own try
RunAdapter(name, field, requested, returns, next) ==
    /\ pc = name
    /\ IF ~requested
       THEN /\ pc' = next
            /\ UNCHANGED <<raw_data, trace, response>>
       ELSE \E outcome \in {Raised} \cup returns :
               IF outcome = Raised
               THEN /\ CaughtAndLogged(next)
                    /\ trace' = [trace EXCEPT !.invoked = @ \cup {name},
                                              !.raised = @ \cup {name}]
               ELSE /\ pc' = next
                    /\ raw_data' = [raw_data EXCEPT ![field] = outcome]
                    /\ response' = response
                    /\ trace' = [trace EXCEPT !.invoked = @ \cup {name},
                                              !.produced[field] = outcome]
    /\ UNCHANGED <<request, pdf_i, gsp, profile_data, inserted>>
    /\ UNCHANGED <<textVars, serviceVars>>

ProcessYoutube ==
    RunAdapter("youtube", "youtube_data", request.youtube_url, YoutubeReturns, "website")

ProcessWebsite ==
    RunAdapter("website", "website_text", request.website_url, WebsiteReturns, "linkedin")

ProcessLinkedin ==
    RunAdapter("linkedin", "linkedin_data", request.linkedin_url, LinkedinReturns, "generate")

\* step 6: the call of generate_speaker_profile on the collected data
GenerateProfile ==
    /\ pc = "generate"
    /\ LET built == BuildAllText(raw_data)
       IN  IF built.raised
           THEN \* the except of lines 93-95
                /\ gsp' = [called |-> TRUE, data |-> raw_data, all_text |-> built.all_text,
                           raised |-> TRUE, synth_called |-> FALSE, synth_input |-> <<>>]
                /\ profile_data' = ExceptionError
           ELSE IF Strip(built.all_text) = <<>>
           THEN \* lines 48-49
                /\ gsp' = [called |-> TRUE, data |-> raw_data, all_text |-> built.all_text,
                           raised |-> FALSE, synth_called |-> FALSE, synth_input |-> <<>>]
                /\ profile_data' = NoTextError
           ELSE \* lines 74-95
                /\ gsp' = [called |-> TRUE, data |-> raw_data, all_text |-> built.all_text,
                           raised |-> FALSE, synth_called |-> TRUE,
                           synth_input |-> built.all_text]
                /\ profile_data' \in SynthesizerResults
    /\ pc' = "save"
    /\ UNCHANGED <<request, pdf_i, raw_data, trace, inserted, response>>
    /\ UNCHANGED <<textVars, serviceVars>>

\* step 7: the record is built with profile_data.get(...) and inserted
\* (lines 89-113); a failed insert ends in the handler of lines 131-136
SaveProfile ==
    /\ pc = "save"
    /\ \E db \in {"stored", "no data", "raised"} :
          IF db = "stored"
          THEN /\ inserted' = inserted + 1
               /\ pc' = "respond"
               /\ response' = response
          ELSE /\ inserted' = inserted
               /\ pc' = "done"
               /\ response' = "error"
    /\ UNCHANGED <<request, pdf_i, raw_data, trace, gsp, profile_data>>
    /\ UNCHANGED <<textVars, serviceVars>>

\* step 8: the created profile is returned (lines 115-129)
ReturnProfile ==
    /\ pc = "respond"
    /\ pc' = "done"
    /\ response' = "profile"
    /\ UNCHANGED <<request, pdf_i, raw_data, trace, gsp, profile_data, inserted>>
    /\ UNCHANGED <<textVars, serviceVars>>

Next ==
    \/ ProcessPdf
    \/ ProcessYoutube
    \/ ProcessWebsite
    \/ ProcessLinkedin
    \/ GenerateProfile
    \/ SaveProfile
    \/ ReturnProfile

Spec == Init /\ [][Next]_vars

(***************************************************************************)
(* clean_text (text_cleaning.py:66-88): the four re.sub steps on a         *)
(* character sequence.                                                     *)
(***************************************************************************)
\* \S
NonSpace(c) == c \notin Whitespace

\* the least index from i on at which s holds a whitespace character,
\* Len(s) + 1 if there is none
NextSpace(s, i) ==
    LET at == {m \in i..Len(s) : s[m] \in Whitespace}
    IN  IF at = {} THEN Len(s) + 1 ELSE CHOOSE m \in at : \A j \in at : m <= j

\* the last index of the run of non-space characters that holds index i
RunEnd(s, i) == NextSpace(s, i) - 1

StartsWith(s, i, lit) ==
    /\ i + Len(lit) - 1 <= Len(s)
    /\ SubSeq(s, i, i + Len(lit) - 1) = lit

\* the literal heads of r'https?://\S+|www\.\S+'
UrlHeads ==
    {<<"h", "t", "t", "p", ":", "/", "/">>,
     <<"h", "t", "t", "p", "s", ":", "/", "/">>,
     <<"w", "w", "w", ".">>}

\* a head followed by at least one \S, which then runs to the end of the token
MatchesHeadAt(s, i, head) ==
    /\ StartsWith(s, i, head)
    /\ i + Len(head) <= Len(s)
    /\ NonSpace(s[i + Len(head)])

\* index of the last character of the URL match that starts at i, 0 if none
UrlMatchEnd(s, i) ==
    IF \E head \in UrlHeads : MatchesHeadAt(s, i, head) THEN RunEnd(s, i) ELSE 0

\* the least index in starts, Len(s) + 1 if starts is empty: where the
\* leftmost match of a pattern begins
Leftmost(s, starts) ==
    IF starts = {} THEN Len(s) + 1 ELSE CHOOSE m \in starts : \A j \in starts : m <= j

\* a mutant: a URL is removed only where it starts a token
RECURSIVE RemoveUrlsAtTokenStart(_, _)
RemoveUrlsAtTokenStart(s, i) ==
    LET m == Leftmost(s, {k \in i..Len(s) :
                             /\ UrlMatchEnd(s, k) > 0
                             /\ (k = 1 \/ s[k - 1] \in Whitespace)})
    IN  IF m > Len(s) THEN SubSeq(s, i, Len(s))
        ELSE SubSeq(s, i, m - 1)
                 \o The({RemoveUrlsAtTokenStart(s, n) : n \in {UrlMatchEnd(s, m) + 1}})

\* re.sub(r'https?://\S+|www\.\S+', '', text), scanning from index i: the
\* text up to the leftmost match is kept, the match is dropped, the scan
\* goes on behind it
RECURSIVE RemoveUrls(_, _)
RemoveUrls(s, i) ==
    LET m == Leftmost(s, {k \in i..Len(s) : UrlMatchEnd(s, k) > 0})
    IN  IF m > Len(s) THEN SubSeq(s, i, Len(s))
        ELSE SubSeq(s, i, m - 1) \o The({RemoveUrls(s, n) : n \in {UrlMatchEnd(s, m) + 1}})

\* index of the last character of the r'\S+@\S+' match that starts at i, 0 if none
EmailMatchEnd(s, i) ==
    IF /\ NonSpace(s[i])
       /\ \E j \in (i + 1)..(RunEnd(s, i) - 1) : s[j] = "@"
    THEN RunEnd(s, i) ELSE 0

\* re.sub(r'\S+@\S+', '', text), scanning from index i
RECURSIVE RemoveEmails(_, _)
RemoveEmails(s, i) ==
    LET m == Leftmost(s, {k \in i..Len(s) : EmailMatchEnd(s, k) > 0})
    IN  IF m > Len(s) THEN SubSeq(s, i, Len(s))
        ELSE SubSeq(s, i, m - 1)
                 \o The({RemoveEmails(s, n) : n \in {EmailMatchEnd(s, m) + 1}})

\* \w, for the letters of the model's alphabet
WordChars == {"a", "b", "h", "p", "s", "t", "w"}
\* the punctuation the character class of line 83 keeps
KeptPunctuation == {".", ",", "!", "?", ";", ":", "(", ")", "-", "'", "\""}

Allowed(c) == c \in WordChars \cup Whitespace \cup KeptPunctuation

\* re.sub(r'[^\w\s.,!?;:()\-\'"]', ' ', text)
ReplaceSpecial(s) == [k \in 1..Len(s) |-> IF Allowed(s[k]) THEN s[k] ELSE SP]

\* the least index from i on at which s holds a non-space character,
\* Len(s) + 1 if there is none
NextNonSpace(s, i) == Leftmost(s, {m \in i..Len(s) : NonSpace(s[m])})

\* re.sub(r'\s+', ' ', text), scanning from index i: the text up to the next
\* whitespace run is kept and the run becomes one space
RECURSIVE CollapseWhitespace(_, _)
CollapseWhitespace(s, i) ==
    LET m == NextSpace(s, i)
    IN  IF m > Len(s) THEN SubSeq(s, i, Len(s))
        ELSE SubSeq(s, i, m - 1) \o <<SP>>
                 \o The({CollapseWhitespace(s, n) : n \in {NextNonSpace(s, m)}})

\* a mutant: whitespace is collapsed before the disallowed characters are replaced
clean_text_collapse_first(t) ==
    The({Strip(replaced) :
          replaced \in {ReplaceSpecial(collapsed) :
          collapsed \in {CollapseWhitespace(no_emails, 1) :
          no_emails \in {RemoveEmails(no_urls, 1) :
          no_urls \in {RemoveUrls(t, 1)}}}}})

\* lines 77-86: text is reassigned by each of the four substitutions in turn
clean_text(t) ==
    The({Strip(collapsed) :
          collapsed \in {CollapseWhitespace(replaced, 1) :
          replaced \in {ReplaceSpecial(no_emails) :
          no_emails \in {RemoveEmails(no_urls, 1) :
          no_urls \in {RemoveUrls(t, 1)}}}}})

(***************************************************************************)
(* process_text_for_ai (text_cleaning.py:138-163), for raw text without an *)
(* "<html" or "<body" marker (the else branch of lines 149-152): clean,    *)
(* deduplicate, chunk with the configured budget.                          *)
(***************************************************************************)
MAX_TOKENS_PER_REQUEST == 4000

\* lines 154-163 under a configured settings.MAX_TOKENS_PER_REQUEST
process_text_for_ai_with(raw_text, configured) ==
    The({chunk_text(deduplicated_text, configured) :
          deduplicated_text \in {remove_duplicates(cleaned_text) :
          cleaned_text \in {clean_text(raw_text)}}})

process_text_for_ai(raw_text) == process_text_for_ai_with(raw_text, MAX_TOKENS_PER_REQUEST)

\* settings.MAX_TOKENS_PER_REQUEST is a field of the pydantic Settings
\* (config.py:38): 4000 unless the deployment configures another budget
ConfiguredBudgets == (1..MaxTokens) \cup {MAX_TOKENS_PER_REQUEST}

(***************************************************************************)
(* The raw texts the normalizer is applied to: up to MaxAtoms pieces, each *)
(* a character or the head of a URL.                                       *)
(***************************************************************************)
MaxAtoms == 4

Atoms ==
    {<<"h", "t", "t", "p", ":", "/", "/">>, <<"w", "w", "w", ".">>,
     <<"w">>, <<"a">>, <<"@">>, <<"<">>, <<">">>, <<SP>>, <<NL>>}

InitNorm ==
    /\ text = <<>>
    /\ op = "none"
    /\ max_tokens = 0
    /\ result = <<>>
    /\ natoms = 0
    /\ InitProfileIdle
    /\ InitServiceIdle

AppendAtom(a) ==
    /\ op = "none"
    /\ natoms < MaxAtoms
    /\ natoms' = natoms + 1
    /\ text' = text \o a
    /\ UNCHANGED <<op, max_tokens, result>>
    /\ UNCHANGED <<profileVars, serviceVars>>

CallCleanText ==
    /\ op = "none"
    /\ op' = "clean_text"
    /\ result' = <<clean_text(text)>>
    /\ UNCHANGED <<text, max_tokens, natoms>>
    /\ UNCHANGED <<profileVars, serviceVars>>

CallProcessTextForAi(configured) ==
    /\ op = "none"
    /\ op' = "process_text_for_ai"
    /\ max_tokens' = configured
    /\ result' = process_text_for_ai_with(text, configured)
    /\ UNCHANGED <<text, natoms>>
    /\ UNCHANGED <<profileVars, serviceVars>>

NextNorm ==
    \/ \E a \in Atoms : AppendAtom(a)
    \/ CallCleanText
    \/ \E configured \in ConfiguredBudgets : CallProcessTextForAi(configured)

SpecNorm == InitNorm /\ [][NextNorm]_vars

(***************************************************************************)
(* process_pdf_for_profile and extract_text_from_pdf (pdf_service.py).     *)
(* What a PDF's bytes make each library produce is not known to the        *)
(* program: every extraction step takes one of the outcomes below.  Each   *)
(* step starts from text = "", appends page_text + "\n\n" per page, and on *)
(* an exception logs and returns the text of the pages done so far.        *)
(***************************************************************************)
\* the yield a text must reach, after strip(), for the cascade to stop
YieldThreshold == 100

\* page texts: an empty page, a page of just under half the threshold, one
\* of one character more, a page of exactly the threshold, one of one more
BlankPage == <<>>
HalfPage == Rep("a", (YieldThreshold \div 2) - 2)
NearHalfPage == Rep("a", (YieldThreshold \div 2) - 1)
FullPage == Rep("b", YieldThreshold)
LongPage == Rep("b", YieldThreshold + 1)

\* the pages a step got through before it returned or raised
PageRuns ==
    {<<>>, <<BlankPage>>, <<HalfPage>>, <<HalfPage, HalfPage>>,
     <<NearHalfPage, NearHalfPage>>, <<FullPage>>}

\* text += page_text + "\n\n" over the pages
RECURSIVE TextOfPages(_)
TextOfPages(pages) ==
    IF pages = <<>> THEN <<>>
    ELSE Head(pages) \o <<NL, NL>> \o TextOfPages(Tail(pages))

ExtractionOutcomes == [pages : PageRuns, raised : BOOLEAN]

\* a mutant: a text of exactly the threshold still counts as too little
BelowThresholdInclusive(t) == t = <<>> \/ Len(Strip(t)) <= YieldThreshold

\* not text or len(text.strip()) < 100
BelowThreshold(t) == t = <<>> \/ Len(Strip(t)) < YieldThreshold

InitPdf ==
    /\ InitTextIdle
    /\ InitProfileIdle
    /\ pdf = [PdfIdle EXCEPT !.pc = "start"]
    /\ crawl = CrawlIdle
    /\ yt = YoutubeIdle
    /\ InitOthersIdle

\* one extraction function called at position from: its return value becomes text
ExtractWith(name, from, outcome) ==
    /\ pdf.pc = from
    /\ pdf' = [pdf EXCEPT
                 !.pc = name,
                 !.text = TextOfPages(outcome.pages),
                 !.calls = Append(@, [name |-> name,
                                      out |-> TextOfPages(outcome.pages),
                                      raised |-> outcome.raised])]
    /\ UNCHANGED <<textVars, profileVars, crawl, yt, otherVars>>

extract_text_with_pymupdf(outcome) == ExtractWith("pymupdf", "start", outcome)

extract_text_with_pdfplumber(outcome) ==
    /\ BelowThreshold(pdf.text)
    /\ ExtractWith("pdfplumber", "pymupdf", outcome)

extract_text_with_pypdf2(outcome) ==
    /\ BelowThreshold(pdf.text)
    /\ ExtractWith("pypdf2", "pdfplumber", outcome)

(***************************************************************************)
(* The temporary file of is_scanned_pdf and perform_ocr_on_pdf (lines      *)
(* 155-157 and 181-183, 197-199 and 232-234).  failed_at names the step    *)
(* that raised: "create" the NamedTemporaryFile call, "write" the          *)
(* temp_file.write call, any other value a later step, "none" no step.     *)
(***************************************************************************)
\* NamedTemporaryFile(delete=False) has put a file on disk
TempFileCreated(failed_at) == failed_at # "create"

\* temp_file_path = temp_file.name has been executed
TempFilePathBound(failed_at) == failed_at \notin {"create", "write"}

\* finally: if 'temp_file_path' in locals() and os.path.exists(temp_file_path):
\* os.unlink(temp_file_path); the number of files on disk after it
TempFilesLeftBy(failed_at) ==
    IF TempFileCreated(failed_at) /\ ~TempFilePathBound(failed_at) THEN 1 ELSE 0

(***************************************************************************)
(* is_scanned_pdf (lines 185-234): what PyPDF2 and PyMuPDF read from the   *)
(* file, page by page, up to the step that raised if one did.              *)
(***************************************************************************)
ScanPageRuns == PageRuns \cup {<<LongPage>>, <<HalfPage, LongPage>>}

ScanOutcomes ==
    [pypdf2_pages : ScanPageRuns, fitz_pages : ScanPageRuns,
     failed_at : {"none", "create", "write", "pypdf2", "fitz"}]

\* if page_text and len(page_text.strip()) > 100
SubstantialPage(page_text) == page_text # <<>> /\ Len(Strip(page_text)) > YieldThreshold

\* text += page_text over the substantial pages (lines 207-208)
RECURSIVE SubstantialText(_)
SubstantialText(pages) ==
    IF pages = <<>> THEN <<>>
    ELSE (IF SubstantialPage(Head(pages)) THEN Head(pages) ELSE <<>>)
         \o SubstantialText(Tail(pages))

\* the value is_scanned_pdf returns: True on any exception, False once
\* PyPDF2's substantial text, or one PyMuPDF page, is longer than 100
IsScannedResult(outcome) ==
    IF outcome.failed_at \in {"create", "write", "pypdf2"} THEN TRUE
    ELSE IF SubstantialPage(SubstantialText(outcome.pypdf2_pages)) THEN FALSE
    ELSE IF \E i \in 1..Len(outcome.fitz_pages) : SubstantialPage(outcome.fitz_pages[i])
         THEN FALSE
    ELSE TRUE

\* the call of line 69, reached when the third parser's text is below the threshold
is_scanned_pdf(outcome) ==
    /\ pdf.pc = "pypdf2"
    /\ BelowThreshold(pdf.text)
    /\ pdf' = [pdf EXCEPT
                 !.pc = "is_scanned",
                 !.scanned = IsScannedResult(outcome),
                 !.temp_files_left = @ + TempFilesLeftBy(outcome.failed_at),
                 !.calls = Append(@, [name |-> "is_scanned", out |-> <<>>,
                                      raised |-> (outcome.failed_at # "none")])]
    /\ UNCHANGED <<textVars, profileVars, crawl, yt, otherVars>>

\* perform_ocr_on_pdf either gets through, or raises at the temporary file,
\* at fitz.open, or at a page
OcrOutcomes ==
    [pages : PageRuns, raised : {FALSE}, failed_at : {"none"}]
        \cup [pages : {<<>>}, raised : {TRUE}, failed_at : {"create", "write", "open"}]
        \cup [pages : PageRuns, raised : {TRUE}, failed_at : {"ocr"}]

\* a mutant: OCR runs whatever is_scanned_pdf returned
perform_ocr_on_pdf_unconditional(outcome) ==
    /\ pdf.pc = "is_scanned"
    /\ pdf' = [pdf EXCEPT
                 !.pc = "ocr",
                 !.text = TextOfPages(outcome.pages),
                 !.temp_files_left = @ + TempFilesLeftBy(outcome.failed_at),
                 !.calls = Append(@, [name |-> "ocr",
                                      out |-> TextOfPages(outcome.pages),
                                      raised |-> outcome.raised])]
    /\ UNCHANGED <<textVars, profileVars, crawl, yt, otherVars>>

\* lines 69-71: text = perform_ocr_on_pdf(pdf_bytes) if is_scanned_pdf gave True
perform_ocr_on_pdf(outcome) ==
    /\ pdf.pc = "is_scanned"
    /\ pdf.scanned
    /\ pdf' = [pdf EXCEPT
                 !.pc = "ocr",
                 !.text = TextOfPages(outcome.pages),
                 !.temp_files_left = @ + TempFilesLeftBy(outcome.failed_at),
                 !.calls = Append(@, [name |-> "ocr",
                                      out |-> TextOfPages(outcome.pages),
                                      raised |-> outcome.raised])]
    /\ UNCHANGED <<textVars, profileVars, crawl, yt, otherVars>>

\* return text, reached as soon as no further condition of lines 59-71 holds
extract_text_from_pdf ==
    /\ \/ pdf.pc \in {"pymupdf", "pdfplumber", "pypdf2"} /\ ~BelowThreshold(pdf.text)
       \/ pdf.pc = "is_scanned" /\ ~pdf.scanned
       \/ pdf.pc = "ocr"
    /\ pdf' = [pdf EXCEPT !.pc = "returned", !.raw_text = pdf.text]
    /\ UNCHANGED <<textVars, profileVars, crawl, yt, otherVars>>

process_pdf_for_profile ==
    /\ pdf.pc = "returned"
    /\ pdf' = [pdf EXCEPT !.pc = "processed",
                          !.processed_chunks = process_text_for_ai(pdf.raw_text)]
    /\ UNCHANGED <<textVars, profileVars, crawl, yt, otherVars>>

NextPdf ==
    \/ \E outcome \in ExtractionOutcomes : extract_text_with_pymupdf(outcome)
    \/ \E outcome \in ExtractionOutcomes : extract_text_with_pdfplumber(outcome)
    \/ \E outcome \in ExtractionOutcomes : extract_text_with_pypdf2(outcome)
    \/ \E outcome \in ScanOutcomes : is_scanned_pdf(outcome)
    \/ \E outcome \in OcrOutcomes : perform_ocr_on_pdf(outcome)
    \/ extract_text_from_pdf
    \/ process_pdf_for_profile

SpecPdf == InitPdf /\ [][NextPdf]_vars

(***************************************************************************)
(* is_scanned_pdf called on its own.                                       *)
(***************************************************************************)
InitScan ==
    /\ InitTextIdle
    /\ InitProfileIdle
    /\ pdf = PdfIdle
    /\ crawl = CrawlIdle
    /\ yt = YoutubeIdle
    /\ auth = AuthIdle
    /\ store = StoreIdle
    /\ \E outcome \in ScanOutcomes :
          scan = [ScanIdle EXCEPT !.pc = "start",
                                  !.pypdf2_pages = outcome.pypdf2_pages,
                                  !.fitz_pages = outcome.fitz_pages,
                                  !.failed_at = outcome.failed_at]

CallIsScannedPdf ==
    /\ scan.pc = "start"
    /\ scan' = [scan EXCEPT
                  !.pc = "done",
                  !.result = IsScannedResult([pypdf2_pages |-> scan.pypdf2_pages,
                                              fitz_pages |-> scan.fitz_pages,
                                              failed_at |-> scan.failed_at]),
                  !.temp_files_left = @ + TempFilesLeftBy(scan.failed_at)]
    /\ UNCHANGED <<textVars, profileVars, pdf, crawl, yt, auth, store>>

NextScan == CallIsScannedPdf

SpecScan == InitScan /\ [][NextScan]_vars

(***************************************************************************)
(* URL handling of the website adapter (website_service.py).  A URL is a   *)
(* str, modelled as its sequence of characters.                            *)
(***************************************************************************)
\* lit occurs in s
Contains(s, lit) == \E i \in 1..Len(s) : StartsWith(s, i, lit)

\* the least index at which s holds a character of cs, Len(s) + 1 if none
FirstOf(s, cs) == Leftmost(s, {i \in 1..Len(s) : s[i] \in cs})

UrlLetters == {"a", "b", "c", "e", "f", "g", "h", "l", "m", "n", "o", "p", "s", "t",
               "u", "v", "w", "x", "y"}
\* urllib.parse.scheme_chars, for the characters of the model's alphabet
SchemeChars == UrlLetters \cup {"+", "-", "."}

\* urlparse(url).scheme: the text before the first ':' if it starts with a
\* letter and holds scheme characters only
HasScheme(url) ==
    /\ FirstOf(url, {":"}) \in 2..Len(url)
    /\ url[1] \in UrlLetters
    /\ \A i \in 1..(FirstOf(url, {":"}) - 1) : url[i] \in SchemeChars

UrlScheme(url) == IF HasScheme(url) THEN SubSeq(url, 1, FirstOf(url, {":"}) - 1) ELSE <<>>

\* what urlsplit is left with once the scheme and its ':' are taken off
AfterScheme(url) ==
    IF HasScheme(url) THEN SubSeq(url, FirstOf(url, {":"}) + 1, Len(url)) ELSE url

\* urlparse(url).netloc: what follows a leading '//' up to the next '/', '?' or '#'
UrlNetloc(url) ==
    LET rest == AfterScheme(url)
    IN  IF StartsWith(rest, 1, <<"/", "/">>)
        THEN LET tail == SubSeq(rest, 3, Len(rest))
             IN  SubSeq(tail, 1, FirstOf(tail, {"/", "?", "#"}) - 1)
        ELSE <<>>

\* all([result.scheme, result.netloc])
is_valid_url(url) == UrlScheme(url) # <<>> /\ UrlNetloc(url) # <<>>

\* important_patterns, r'/speak(ing|er)' written out as its two alternatives
important_patterns ==
    {<<"/", "a", "b", "o", "u", "t">>,
     <<"/", "b", "i", "o">>,
     <<"/", "p", "r", "o", "f", "i", "l", "e">>,
     <<"/", "t", "e", "a", "m">>,
     <<"/", "s", "e", "r", "v", "i", "c", "e", "s">>,
     <<"/", "s", "p", "e", "a", "k", "i", "n", "g">>,
     <<"/", "s", "p", "e", "a", "k", "e", "r">>,
     <<"/", "e", "v", "e", "n", "t", "s">>,
     <<"/", "t", "o", "p", "i", "c", "s">>,
     <<"/", "e", "x", "p", "e", "r", "t", "i", "s", "e">>,
     <<"/", "k", "e", "y", "n", "o", "t", "e">>,
     <<"/", "p", "o", "r", "t", "f", "o", "l", "i", "o">>,
     <<"/", "w", "o", "r", "k">>,
     <<"/", "p", "r", "o", "j", "e", "c", "t", "s">>,
     <<"/", "c", "o", "n", "t", "a", "c", "t">>,
     <<"/", "b", "l", "o", "g">>}

is_important_page(url) == \E pattern \in important_patterns : Contains(url, pattern)

(***************************************************************************)
(* crawl_website (website_service.py:170-265), one action per step of the  *)
(* loop.  What a page holds is not known to the program: fetch_url returns *)
(* None or a page, and extract_links returns some list of the site's URLs. *)
(***************************************************************************)
\* the start_url arguments
StartUrls ==
    {<<"h", "t", "t", "p", "s", ":", "/", "/", "s">>,
     <<"h", "t", "t", "p", ":", "/", "/", "s", "/", "a", "b", "o", "u", "t">>,
     <<"f", "t", "p", ":", "/", "/", "s">>,
     <<"s", "/", "a", "b", "o", "u", "t">>,
     <<"h", "t", "t", "p", "s", ":", "/", "/">>,
     <<"/", "/", "s">>}

\* the URLs of the site that pages link to
SiteUrls ==
    {<<"h", "t", "t", "p", "s", ":", "/", "/", "s">>,
     <<"h", "t", "t", "p", "s", ":", "/", "/", "s", "/", "a", "b", "o", "u", "t">>,
     <<"h", "t", "t", "p", "s", ":", "/", "/", "s", "/", "b", "l", "o", "g">>,
     <<"h", "t", "t", "p", "s", ":", "/", "/", "s", "/", "x">>,
     <<"h", "t", "t", "p", "s", ":", "/", "/", "s", "/", "y">>}

\* the longest list of links a page yields
MaxLinks == 2
\* the largest page cap tried besides the default
MaxCap == 2
\* max_pages: int = 10
DefaultMaxPages == 10

RECURSIVE SeqsUpTo(_, _)
SeqsUpTo(S, n) ==
    IF n = 0 THEN {<<>>}
    ELSE SeqsUpTo(S, n - 1) \cup {Append(q, x) : q \in SeqsUpTo(S, n - 1), x \in S}

LinkLists == SeqsUpTo(SiteUrls, MaxLinks)

\* the page fetch_url returns: title and text as clean_html gives them
PageContents == {[title |-> <<>>, text |-> <<"a">>]}

InSeq(x, q) == \E i \in 1..Len(q) : q[i] = x

InitCrawl ==
    /\ InitTextIdle
    /\ InitProfileIdle
    /\ pdf = PdfIdle
    /\ yt = YoutubeIdle
    /\ InitOthersIdle
    /\ \E u \in StartUrls, mp \in (1..MaxCap) \cup {DefaultMaxPages} :
          crawl = [CrawlIdle EXCEPT !.pc = "start", !.start_url = u, !.max_pages = mp]

\* lines 181-188: the validity check and the initial locals
CrawlStart ==
    /\ crawl.pc = "start"
    /\ IF ~is_valid_url(crawl.start_url)
       THEN crawl' = [crawl EXCEPT !.pc = "done", !.result = [error |-> "Invalid URL"]]
       ELSE crawl' = [crawl EXCEPT !.pc = "loop", !.to_visit = <<crawl.start_url>>]
    /\ UNCHANGED <<textVars, profileVars, pdf, yt, otherVars>>

\* a mutant: the loop goes on while the cap is reached but not exceeded
LoopConditionInclusive ==
    crawl.to_visit # <<>> /\ Cardinality(crawl.visited) <= crawl.max_pages

\* a mutant: the loop goes on for as long as the frontier has a URL
LoopConditionNoCap == crawl.to_visit # <<>>

\* while to_visit and len(visited) < max_pages
LoopCondition == crawl.to_visit # <<>> /\ Cardinality(crawl.visited) < crawl.max_pages

\* lines 191-205: pop the next URL, skip it if visited, else mark it;
\* iterations counts the passes through the loop body
TakeNextUrl ==
    /\ crawl.pc = "loop"
    /\ LoopCondition
    /\ LET current_url == Head(crawl.to_visit) IN
       IF current_url \in crawl.visited
       THEN crawl' = [crawl EXCEPT !.to_visit = Tail(@), !.iterations = @ + 1]
       ELSE crawl' = [crawl EXCEPT
                        !.pc = "fetch",
                        !.iterations = @ + 1,
                        !.to_visit = Tail(@),
                        !.current_url = current_url,
                        !.visited = @ \cup {current_url},
                        !.important_pages =
                            IF is_important_page(current_url) THEN Append(@, current_url) ELSE @]
    /\ UNCHANGED <<textVars, profileVars, pdf, yt, otherVars>>

\* a mutant: important links go to the back of the frontier like the others
AddLinkAtBack(to_visit, visited, link) ==
    IF link \notin visited /\ ~InSeq(link, to_visit)
    THEN Append(to_visit, link)
    ELSE to_visit

\* a mutant: a link is added whether or not the frontier holds it already
AddLinkNoFrontierCheck(to_visit, visited, link) ==
    IF link \notin visited
    THEN IF is_important_page(link) THEN <<link>> \o to_visit ELSE Append(to_visit, link)
    ELSE to_visit

\* lines 233-237: one turn of the loop over links
AddLink(to_visit, visited, link) ==
    IF link \notin visited /\ ~InSeq(link, to_visit)
    THEN IF is_important_page(link) THEN <<link>> \o to_visit ELSE Append(to_visit, link)
    ELSE to_visit

\* lines 208-230: fetch the page (fetched lists the URLs given to
\* fetch_url); nothing more if there is none; else store
\* it and, below the cap, extract its links
FetchPage(html_content, links) ==
    /\ crawl.pc = "fetch"
    /\ IF IsNone(html_content)
       THEN crawl' = [crawl EXCEPT !.pc = "loop", !.fetches = @ + 1,
                                  !.fetched = Append(@, crawl.current_url)]
       ELSE IF Cardinality(crawl.visited) < crawl.max_pages /\ links # <<>>
       THEN crawl' = [crawl EXCEPT
                        !.pc = "links",
                        !.fetches = @ + 1,
                        !.fetched = Append(@, crawl.current_url),
                        !.extracted_content =
                            Append(@, [url |-> crawl.current_url, page |-> html_content]),
                        !.links = links]
       ELSE crawl' = [crawl EXCEPT
                        !.pc = "loop",
                        !.fetches = @ + 1,
                        !.fetched = Append(@, crawl.current_url),
                        !.extracted_content =
                            Append(@, [url |-> crawl.current_url, page |-> html_content])]
    /\ UNCHANGED <<textVars, profileVars, pdf, yt, otherVars>>

\* for link in links: the turn for the next link
TakeLink ==
    /\ crawl.pc = "links"
    /\ crawl' = [crawl EXCEPT
                   !.to_visit = AddLink(crawl.to_visit, crawl.visited, Head(crawl.links)),
                   !.links = Tail(@),
                   !.pc = IF Tail(crawl.links) = <<>> THEN "loop" ELSE "links"]
    /\ UNCHANGED <<textVars, profileVars, pdf, yt, otherVars>>

\* f"=== {page['title']} ===\n\n" + page['text'] + "\n\n"
PageBlock(page) ==
    <<"=", "=", "=", SP>> \o page.title \o <<SP, "=", "=", "=", NL, NL>>
        \o page.text \o <<NL, NL>>

\* lines 240-252: the important pages' blocks first, then the others'
RECURSIVE BlocksOf(_, _)
BlocksOf(entries, wanted) ==
    IF entries = <<>> THEN <<>>
    ELSE (IF InSeq(Head(entries).url, crawl.important_pages) = wanted
          THEN PageBlock(Head(entries).page) ELSE <<>>)
         \o BlocksOf(Tail(entries), wanted)

\* lines 239-265: the loop has ended; combine, process, return
CrawlFinish ==
    /\ crawl.pc = "loop"
    /\ ~LoopCondition
    /\ \E combined_text \in {BlocksOf(crawl.extracted_content, TRUE)
                                \o BlocksOf(crawl.extracted_content, FALSE)} :
       \E processed_chunks \in {process_text_for_ai(combined_text)} :
          crawl' = [crawl EXCEPT
                      !.pc = "done",
                      !.result =
                          [pages_crawled |-> Cardinality(crawl.visited),
                           important_pages |-> crawl.important_pages,
                           processed_text |-> processed_chunks]]
    /\ UNCHANGED <<textVars, profileVars, pdf, yt, otherVars>>

(***************************************************************************)
(* process_youtube_channel and extract_channel_id (youtube_service.py).    *)
(***************************************************************************)
\* the four patterns in list order: the optional scheme and www. in front
\* do not decide a search, what decides is one of these heads followed by a
\* character other than '/', '?' and '&'
ChannelHeads ==
    <<<<"y", "o", "u", "t", "u", "b", "e", ".", "c", "o", "m", "/", "c", "h", "a", "n", "n", "e", "l", "/">>,
      <<"y", "o", "u", "t", "u", "b", "e", ".", "c", "o", "m", "/", "c", "/">>,
      <<"y", "o", "u", "t", "u", "b", "e", ".", "c", "o", "m", "/", "u", "s", "e", "r", "/">>,
      <<"y", "o", "u", "t", "u", "b", "e", ".", "c", "o", "m", "/", "@">>>>

\* where re.search finds pattern n: the start indices of its head
ChannelHits(youtube_url, n) ==
    {i \in 1..Len(youtube_url) :
        /\ StartsWith(youtube_url, i, ChannelHeads[n])
        /\ i + Len(ChannelHeads[n]) <= Len(youtube_url)
        /\ youtube_url[i + Len(ChannelHeads[n])] \notin {"/", "?", "&"}}

\* the channel id (match.group(1)) of the first pattern that matches, else None
extract_channel_id(youtube_url) ==
    LET matching == {n \in 1..Len(ChannelHeads) : ChannelHits(youtube_url, n) # {}}
    IN  IF matching = {} THEN NoneValue
        ELSE LET n == CHOOSE n \in matching : \A k \in matching : n <= k
                 from == Leftmost(youtube_url, ChannelHits(youtube_url, n))
                             + Len(ChannelHeads[n])
                 tail == SubSeq(youtube_url, from, Len(youtube_url))
             IN  [id |-> SubSeq(tail, 1, FirstOf(tail, {"/", "?", "&"}) - 1)]

\* the youtube_url arguments
YoutubeUrls ==
    {<<"y", "o", "u", "t", "u", "b", "e", ".", "c", "o", "m", "/", "c", "h", "a", "n", "n", "e", "l", "/", "U">>,
     <<"h", "t", "t", "p", "s", ":", "/", "/", "w", "w", "w", ".", "y", "o", "u", "t", "u", "b", "e", ".", "c", "o", "m", "/", "c", "/", "n">>,
     <<"y", "o", "u", "t", "u", "b", "e", ".", "c", "o", "m", "/", "u", "s", "e", "r", "/", "u">>,
     <<"y", "o", "u", "t", "u", "b", "e", ".", "c", "o", "m", "/", "@", "h">>,
     <<"y", "o", "u", "t", "u", "b", "e", ".", "c", "o", "m", "/", "w", "a", "t", "c", "h">>,
     <<"y", "o", "u", "t", "u", "b", "e", ".", "c", "o", "m", "/", "c", "h", "a", "n", "n", "e", "l", "/">>,
     <<"y", "o", "u", "t", "u", "b", "e", ".", "c", "o", "m", "/", "c", "/", "/", "n">>,
     <<"v", "i", "m", "e", "o", ".", "c", "o", "m", "/", "c", "/", "n">>,
     <<>>}

\* get_channel_analytics either raises or returns the channel's data (here
\* a channel with a description and no videos)
AnalyticsOutcomes == {Raised, [description |-> <<"a">>]}

InitYoutube ==
    /\ InitTextIdle
    /\ InitProfileIdle
    /\ pdf = PdfIdle
    /\ crawl = CrawlIdle
    /\ InitOthersIdle
    /\ \E u \in YoutubeUrls : yt = [YoutubeIdle EXCEPT !.pc = "start", !.youtube_url = u]

\* lines 364-402: no id gives the error value before any API call; an
\* exception of the API call is caught and returned as an error value; else
\* the descriptions are joined by "\n\n" and processed
process_youtube_channel(analytics) ==
    /\ yt.pc = "start"
    /\ IF IsNone(extract_channel_id(yt.youtube_url))
       THEN yt' = [yt EXCEPT !.pc = "done",
                             !.result = [error |-> "Invalid YouTube channel URL"]]
       ELSE yt' = [yt EXCEPT
                     !.pc = "done",
                     !.api_calls = @ + 1,
                     !.result =
                         IF analytics = Raised THEN [error |-> "str(e)"]
                         ELSE [processed_text |->
                                   process_text_for_ai(analytics.description \o <<NL, NL>>)]]
    /\ UNCHANGED <<textVars, profileVars, pdf, crawl, otherVars>>

(***************************************************************************)
(* The two URL-taking adapters, each called with one argument.             *)
(***************************************************************************)
InitAdapters == InitCrawl \/ InitYoutube

NextAdapters ==
    \/ CrawlStart
    \/ TakeNextUrl
    \/ \E html_content \in {NoneValue} \cup PageContents, links \in LinkLists :
          FetchPage(html_content, links)
    \/ TakeLink
    \/ CrawlFinish
    \/ \E analytics \in AnalyticsOutcomes : process_youtube_channel(analytics)

SpecAdapters == InitAdapters /\ [][NextAdapters]_vars

\* each call runs on: an adapter that can take a step takes one
SpecAdaptersFair == SpecAdapters /\ WF_vars(NextAdapters)

(***************************************************************************)
(* parse_profile_text (openai_service.py:97-156): six searches of          *)
(* r'\*\*Label:\*\*(.*?)(?=\*\*|\Z)' with re.DOTALL.                          *)
(***************************************************************************)
LabelOf ==
    [name |-> <<"*", "*", "N", "a", "m", "e", ":", "*", "*">>,
     expertise |-> <<"*", "*", "E", "x", "p", "e", "r", "t", "i", "s", "e", ":", "*", "*">>,
     target_audience |-> <<"*", "*", "T", "a", "r", "g", "e", "t", " ", "a", "u", "d", "i", "e", "n", "c", "e", ":", "*", "*">>,
     activity_summary |-> <<"*", "*", "A", "c", "t", "i", "v", "i", "t", "y", " ", "s", "u", "m", "m", "a", "r", "y", ":", "*", "*">>,
     personal_tone |-> <<"*", "*", "P", "e", "r", "s", "o", "n", "a", "l", " ", "t", "o", "n", "e", ":", "*", "*">>,
     strengths |-> <<"*", "*", "S", "t", "r", "e", "n", "g", "t", "h", "s", ":", "*", "*">>]

Bold == <<"*", "*">>

\* the least index from i on at which lit starts in s, Len(s) + 1 if none
FindFrom(s, lit, i) == Leftmost(s, {k \in i..Len(s) : StartsWith(s, k, lit)})

\* re.search found the label
LabelFound(profile_text, label) == FindFrom(profile_text, label, 1) <= Len(profile_text)

\* match.group(1): from behind the leftmost label, lazily, up to the first
\* '**' or the end of the text
SectionGroup(profile_text, label) ==
    LET from == FindFrom(profile_text, label, 1) + Len(label)
    IN  SubSeq(profile_text, from, FindFrom(profile_text, Bold, from) - 1)

\* s.split(','): always at least one piece
RECURSIVE SplitCommaFrom(_, _)
SplitCommaFrom(s, i) ==
    LET m == Leftmost(s, {k \in i..Len(s) : s[k] = ","})
    IN  IF m > Len(s) THEN <<SubSeq(s, i, Len(s))>>
        ELSE <<SubSeq(s, i, m - 1)>> \o SplitCommaFrom(s, m + 1)

\* [item.strip() for item in section.split(',') if item.strip()]
ItemsOf(section) == StripNonEmpty(SplitCommaFrom(section, 1))

\* a str field: the stripped group, '' if the label is not found
StrField(profile_text, label) ==
    IF LabelFound(profile_text, label) THEN Strip(SectionGroup(profile_text, label)) ELSE <<>>

\* a list field: the items of the stripped group, [] if the label is not found
ListField(profile_text, label) ==
    IF LabelFound(profile_text, label)
    THEN ItemsOf(Strip(SectionGroup(profile_text, label))) ELSE <<>>

parse_profile_text(profile_text) ==
    [name |-> StrField(profile_text, LabelOf.name),
     expertise |-> ListField(profile_text, LabelOf.expertise),
     target_audience |-> ListField(profile_text, LabelOf.target_audience),
     activity_summary |-> StrField(profile_text, LabelOf.activity_summary),
     personal_tone |-> StrField(profile_text, LabelOf.personal_tone),
     strengths |-> ListField(profile_text, LabelOf.strengths)]

(***************************************************************************)
(* The synthesizer's texts parse_profile_text is applied to: up to         *)
(* MaxPieces pieces, each a label, bold markup or a piece of content.      *)
(***************************************************************************)
MaxPieces == 3

ProfilePieces ==
    {LabelOf[f] : f \in DOMAIN LabelOf} \cup {Bold, <<"a">>, <<"b">>, <<",">>, <<SP>>}

InitParse ==
    /\ text = <<>>
    /\ op = "none"
    /\ max_tokens = 0
    /\ result = <<>>
    /\ natoms = 0
    /\ InitProfileIdle
    /\ InitServiceIdle

AppendProfilePiece(piece) ==
    /\ op = "none"
    /\ natoms < MaxPieces
    /\ natoms' = natoms + 1
    /\ text' = text \o piece
    /\ UNCHANGED <<op, max_tokens, result>>
    /\ UNCHANGED <<profileVars, serviceVars>>

CallParseProfileText ==
    /\ op = "none"
    /\ op' = "parse_profile_text"
    /\ result' = <<parse_profile_text(text)>>
    /\ UNCHANGED <<text, max_tokens, natoms>>
    /\ UNCHANGED <<profileVars, serviceVars>>

NextParse ==
    \/ \E piece \in ProfilePieces : AppendProfilePiece(piece)
    \/ CallParseProfileText

SpecParse == InitParse /\ [][NextParse]_vars

(***************************************************************************)
(* get_current_user and get_dummy_user (auth_service.py:117-170).  The     *)
(* rows of the users table are known by their ids.  A token is absent      *)
(* (auto_error=False), or given; jwt.decode accepts it (valid) or raises   *)
(* JWTError; its payload names a subject or has no "sub".                  *)
(***************************************************************************)
MaxUsers == 3

UserIds == 1..MaxUsers

\* dummy_id = "00000000-0000-0000-0000-000000000000"
DummyId == 0

\* payload.get("sub"): <<>> for None, <<u>> for the id u
Subjects == {<<>>} \cup {<<u>> : u \in UserIds}

Tokens == {NoToken} \cup [given : {TRUE}, valid : BOOLEAN, sub : Subjects]

get_dummy_user == [kind |-> "user", id |-> DummyId]

HTTPException == [kind |-> "raised", id |-> 0]

\* what get_current_user returns: lines 130-156
CurrentUser(users, token, query_raises) ==
    IF ~token.given THEN get_dummy_user
    ELSE IF ~token.valid THEN get_dummy_user
    ELSE IF token.sub = <<>> THEN get_dummy_user
    ELSE IF query_raises THEN get_dummy_user
    ELSE IF token.sub[1] \notin users THEN get_dummy_user
    ELSE [kind |-> "user", id |-> token.sub[1]]

\* register_new_user (lines 172-219): a new row in the users table
register_new_user(u) ==
    /\ auth.pc = "idle"
    /\ u \notin auth.users
    /\ auth' = [auth EXCEPT !.users = @ \cup {u}]
    /\ UNCHANGED <<textVars, profileVars, pdf, crawl, yt, scan, store>>

\* the query of line 138 is reached with an accepted token that has a subject
QueryReached(token) == token.given /\ token.valid /\ token.sub # <<>>

\* logged: the logger.error of line 154, reached when the query raised
get_current_user(token, query_raises) ==
    /\ auth.pc = "idle"
    /\ auth' = [auth EXCEPT !.pc = "returned",
                            !.token = token,
                            !.queried = QueryReached(token),
                            !.logged = QueryReached(token) /\ query_raises,
                            !.result = CurrentUser(auth.users, token,
                                                   QueryReached(token) /\ query_raises)]
    /\ UNCHANGED <<textVars, profileVars, pdf, crawl, yt, scan, store>>

InitAuth ==
    /\ text = <<>>
    /\ op = "none"
    /\ max_tokens = 0
    /\ result = <<>>
    /\ natoms = 0
    /\ InitProfileIdle
    /\ InitServiceIdle

NextAuth ==
    \/ \E u \in UserIds : register_new_user(u)
    \/ \E token \in Tokens, query_raises \in BOOLEAN : get_current_user(token, query_raises)

SpecAuth == InitAuth /\ [][NextAuth]_vars

(***************************************************************************)
(* upload_file and download_file (storage_service.py:32-105) and the       *)
(* download step of create_profile (profiles.py:41-55).  The bucket is a   *)
(* set of objects [path, content].  An Optional value is a sequence of     *)
(* none or one element.                                                    *)
(***************************************************************************)
MaxUploads == 2

\* current_user.id of the uploader
StorageUserIds == {<<"u">>, <<"v">>}
\* str(uuid.uuid4())
FileIds == {<<"1">>, <<"2">>}
\* file.filename
Filenames == {<<"a", ".", "p", "d", "f">>, <<"a", ".", "P", "D", "F">>, <<"a">>, <<".", "p", "d", "f">>}
\* await file.read()
FileContents == {"%PDF-a", "%PDF-b"}

ToLower == [P |-> "p", D |-> "d", F |-> "f"]

\* s.lower()
Lower(s) == [k \in 1..Len(s) |-> IF s[k] \in DOMAIN ToLower THEN ToLower[s[k]] ELSE s[k]]

\* os.path.splitext(filename)[1]: from the last dot on, unless only dots
\* stand before it
SplitextExt(filename) ==
    LET dots == {k \in 1..Len(filename) : filename[k] = "."}
    IN  IF dots = {} THEN <<>>
        ELSE LET last == CHOOSE k \in dots : \A j \in dots : j <= k
             IN  IF \A j \in 1..(last - 1) : filename[j] = "." THEN <<>>
                 ELSE SubSeq(filename, last, Len(filename))

\* file_path = f"{user_id}/{file_type}/{file_id}{file_ext}"
StoragePath(user_id, file_type, file_id, filename) ==
    user_id \o <<"/">> \o file_type \o <<"/">> \o file_id \o Lower(SplitextExt(filename))

\* get_public_url(file_path) of the storage client: the bucket's public
\* prefix, the path, and in some releases of the client a trailing '?'
PublicUrlPrefix == <<"h", "t", "t", "p", "s", ":", "/", "/", "h", "/", "p", "u", "b", "l", "i", "c", "/", "b", "/">>
PublicUrlTails == {<<>>, <<"?">>}
get_public_url(file_path, tail) == PublicUrlPrefix \o file_path \o tail

\* s.split("/")[-1]
LastSegment(s) ==
    LET at == {k \in 1..Len(s) : s[k] = "/"}
    IN  IF at = {} THEN s
        ELSE SubSeq(s, (CHOOSE k \in at : \A j \in at : j <= k) + 1, Len(s))

\* download_file(file_path): the content of the object at the path, None
\* if the storage client raises because there is none
download_file(objects, file_path) ==
    IF \E o \in objects : o.path = file_path
    THEN <<(CHOOSE o \in objects : o.path = file_path).content>>
    ELSE <<>>

\* upload_pdf_file -> upload_file(file, current_user.id, "pdf"): lines 44-81
upload_file(user_id, file_id, filename, file_content, tail) ==
    /\ store.pc = "idle"
    /\ Len(store.uploads) < MaxUploads
    /\ \A i \in 1..Len(store.uploads) : store.uploads[i].id # file_id
    /\ LET file_path == StoragePath(user_id, <<"p", "d", "f">>, file_id, filename) IN
       store' = [store EXCEPT
                   !.objects = {o \in @ : o.path # file_path}
                                  \cup {[path |-> file_path, content |-> file_content]},
                   !.uploads = Append(@, [id |-> file_id,
                                          filename |-> filename,
                                          path |-> file_path,
                                          url |-> get_public_url(file_path, tail)])]
    /\ UNCHANGED <<textVars, profileVars, pdf, crawl, yt, scan, auth>>

\* create_profile with pdf_urls = [the url upload number n returned]:
\* profiles.py:42-51, pdf_text standing for what reaches
\* process_pdf_for_profile
create_profile_download(n) ==
    /\ store.pc = "idle"
    /\ n \in 1..Len(store.uploads)
    /\ LET pdf_url == store.uploads[n].url
           file_path == LastSegment(pdf_url)
           pdf_bytes == download_file(store.objects, file_path)
       IN  store' = [store EXCEPT
                       !.pc = "downloaded",
                       !.given = n,
                       !.pdf_url = pdf_url,
                       !.file_path = file_path,
                       !.pdf_bytes = pdf_bytes,
                       !.pdf_text = IF pdf_bytes # <<>> THEN pdf_bytes ELSE <<>>]
    /\ UNCHANGED <<textVars, profileVars, pdf, crawl, yt, scan, auth>>

InitStorage ==
    /\ text = <<>>
    /\ op = "none"
    /\ max_tokens = 0
    /\ result = <<>>
    /\ natoms = 0
    /\ InitProfileIdle
    /\ InitServiceIdle

NextStorage ==
    \/ \E user_id \in StorageUserIds, file_id \in FileIds, filename \in Filenames,
          file_content \in FileContents, tail \in PublicUrlTails :
          upload_file(user_id, file_id, filename, file_content, tail)
    \/ \E n \in 1..MaxUploads : create_profile_download(n)

SpecStorage == InitStorage /\ [][NextStorage]_vars

(***************************************************************************)
(* Vocabulary of the chunker and deduplicator properties.                  *)
(***************************************************************************)
NonEmpty(s) == s # <<>>

\* the trimmed, non-empty newline-separated paragraphs of a text
TrimmedParas(t) ==
    LET ps == Split(t)
    IN  SelectSeq([i \in 1..Len(ps) |-> Strip(ps[i])], NonEmpty)

\* the non-empty newline-separated paragraphs of a text, untouched
RawParas(t) == SelectSeq(Split(t), NonEmpty)

\* the pieces of all chunks, in order
RECURSIVE ConcatAll(_)
ConcatAll(seqs) ==
    IF seqs = <<>> THEN <<>> ELSE Head(seqs) \o ConcatAll(Tail(seqs))

max_chars_of_call == max_tokens * chars_per_token

Chunked == op = "chunk_text"

OversizedChunks == {i \in 1..Len(result) : Len(result[i]) > max_chars_of_call}

\* The consecutive groups a set of cut positions splits a paragraph list
\* into: a cut at c separates paragraph c from paragraph c + 1.
GroupBounds(n, cuts) ==
    LET starts == {1} \cup {c + 1 : c \in cuts}
        Nth[k \in 1..Cardinality(starts)] ==
            CHOOSE x \in starts : Cardinality({y \in starts : y < x}) = k - 1
    IN  [k \in 1..Cardinality(starts) |->
            [lo |-> Nth[k],
             hi |-> IF k = Cardinality(starts) THEN n ELSE Nth[k + 1] - 1]]

Groups(paras, cuts) ==
    LET b == GroupBounds(Len(paras), cuts)
    IN  [k \in 1..Len(b) |-> SubSeq(paras, b[k].lo, b[k].hi)]

\* an oversized paragraph is the only paragraph of its group
OversizedAlone(groups, mc) ==
    \A k \in 1..Len(groups) :
        (\E i \in 1..Len(groups[k]) : Len(groups[k][i]) > mc) => Len(groups[k]) = 1

(***************************************************************************)
(* C6 (as stated): chunk_text returns an empty sequence when the text is   *)
(* empty and a non-empty sequence for every non-empty text.  The code      *)
(* returns the one-element list [""] for the empty text.                   *)
(***************************************************************************)
C6_EmptyIffEmptyInput ==
    Chunked => ((text = <<>>) <=> (result = <<>>))

(***************************************************************************)
(* C7 (as stated): at most one chunk of a chunk_text call is longer than   *)
(* max_tokens * 4 characters.                                              *)
(***************************************************************************)
C7_AtMostOneOversizedChunk ==
    Chunked => Cardinality(OversizedChunks) <= 1

(***************************************************************************)
(* C7 (amended): a chunk_text call returns at most as many chunks longer   *)
(* than max_tokens * 4 as the text has paragraphs whose trimmed length     *)
(* exceeds max_tokens * 4, and each such chunk is one of those trimmed     *)
(* paragraphs; every other chunk is within the budget.                     *)
(***************************************************************************)
C7_OversizedChunksAreOversizedParagraphs ==
    Chunked =>
        LET ps == Split(text)
            big == {j \in 1..Len(ps) : Len(Strip(ps[j])) > max_chars_of_call}
        IN  /\ Cardinality(OversizedChunks) <= Cardinality(big)
            /\ \A i \in OversizedChunks : \E j \in big : result[i] = Strip(ps[j])

C7_Witness ==
    /\ Chunked
    /\ Cardinality(OversizedChunks) = 2
    /\ \E i \in 1..Len(result) : i \notin OversizedChunks /\ result[i] # <<>>

(***************************************************************************)
(* C8 (as stated): when the text does not fit in one chunk, every chunk is *)
(* the newline-join of consecutive whole paragraphs, a paragraph longer    *)
(* than max_chars is the only paragraph of its chunk, and every chunk      *)
(* longer than max_chars holds exactly one paragraph.                      *)
(***************************************************************************)
C8_ChunksAreJoinsOfWholeParagraphs ==
    (Chunked /\ Len(text) > max_chars_of_call) =>
        LET ps == Split(text)
        IN  \E cuts \in SUBSET (1..(Len(ps) - 1)) :
                LET g == Groups(ps, cuts)
                IN  /\ result = [k \in 1..Len(g) |-> Join(g[k])]
                    /\ OversizedAlone(g, max_chars_of_call)
                    /\ \A k \in OversizedChunks : Len(g[k]) = 1

(***************************************************************************)
(* C8 (amended): when the text does not fit in one chunk, every chunk is   *)
(* the newline-join of consecutive whole paragraphs with the whitespace at *)
(* the two ends of the chunk stripped; the groups cover all paragraphs in  *)
(* order, a paragraph longer than max_chars is the only paragraph of its   *)
(* group, and every chunk longer than max_chars holds exactly one          *)
(* paragraph.                                                              *)
(***************************************************************************)
C8_ChunksAreTrimmedJoinsOfWholeParagraphs ==
    (Chunked /\ Len(text) > max_chars_of_call) =>
        LET ps == Split(text)
        IN  \E cuts \in SUBSET (1..(Len(ps) - 1)) :
                LET g == Groups(ps, cuts)
                IN  /\ result = [k \in 1..Len(g) |-> Strip(Join(g[k]))]
                    /\ OversizedAlone(g, max_chars_of_call)
                    /\ \A k \in OversizedChunks : Len(g[k]) = 1

C8_Witness ==
    /\ Chunked
    /\ max_tokens = 1
    /\ Len(result) = 2
    /\ Len(Split(text)) = 3
    /\ \E i \in 1..2 : NL \in {result[i][x] : x \in 1..Len(result[i])}
    /\ OversizedChunks # {}

(***************************************************************************)
(* C9 (as stated): splitting the chunks at newlines and discarding empty   *)
(* pieces yields exactly the non-empty paragraphs of the input, unaltered  *)
(* and in order.                                                           *)
(***************************************************************************)
C9_ChunksReproduceParagraphs ==
    Chunked =>
        ConcatAll([i \in 1..Len(result) |-> RawParas(result[i])]) = RawParas(text)

(***************************************************************************)
(* C9 (amended): splitting the chunks at newlines, trimming each piece and *)
(* discarding the empty ones yields exactly the trimmed non-empty          *)
(* paragraphs of the input in their original order, none lost, duplicated  *)
(* or reordered (whitespace at the ends of a chunk is not preserved).      *)
(***************************************************************************)
C9_ChunksReproduceTrimmedParagraphs ==
    Chunked =>
        ConcatAll([i \in 1..Len(result) |-> TrimmedParas(result[i])]) = TrimmedParas(text)

C9_Witness ==
    /\ Chunked
    /\ Len(result) >= 2
    /\ Len(TrimmedParas(text)) = 3
    /\ RawParas(text) # TrimmedParas(text)

(***************************************************************************)
(* C10: the paragraphs remove_duplicates returns are the distinct trimmed  *)
(* non-empty paragraphs of the input, each exactly once, at the position   *)
(* of its first occurrence (so a subsequence of the input paragraphs), and *)
(* no two of them are equal.                                               *)
(***************************************************************************)
C10_DedupKeepsFirstOccurrences ==
    (op = "remove_duplicates") =>
        LET inp == TrimmedParas(text)
            out == IF result[1] = <<>> THEN <<>> ELSE Split(result[1])
            FirstPos(p) == CHOOSE j \in 1..Len(inp) :
                               inp[j] = p /\ \A h \in 1..(j - 1) : inp[h] # p
        IN  /\ \A k \in 1..Len(out) : \E j \in 1..Len(inp) : inp[j] = out[k]
            /\ \A j \in 1..Len(inp) : \E k \in 1..Len(out) : out[k] = inp[j]
            /\ \A k, m \in 1..Len(out) : k # m => out[k] # out[m]
            /\ \A k, m \in 1..Len(out) : k < m => FirstPos(out[k]) < FirstPos(out[m])

C10_Witness ==
    /\ op = "remove_duplicates"
    /\ Len(TrimmedParas(text)) = 3
    /\ TrimmedParas(text)[1] = TrimmedParas(text)[3]
    /\ TrimmedParas(text)[1] # TrimmedParas(text)[2]
    /\ Len(Split(result[1])) = 2

(***************************************************************************)
(* Vocabulary of the aggregation properties.                               *)
(***************************************************************************)
\* the chunks of an adapter's value: none when it is None, an error value
\* or a dict without processed text
ChunksOf(d) ==
    IF ~IsNone(d) /\ "processed_text" \in DOMAIN d THEN d.processed_text ELSE <<>>

\* every chunk of every present source, PDFs first, then YouTube, website,
\* LinkedIn
PresentChunks(data) ==
    data.pdf_text \o ChunksOf(data.youtube_data) \o ChunksOf(data.website_text)
        \o ChunksOf(data.linkedin_data)

HasContent(data) ==
    \E i \in 1..Len(PresentChunks(data)) : ~IsBlank(PresentChunks(data)[i])

IsSubstring(c, s) ==
    \E i \in 0..(Len(s) - Len(c)) : SubSeq(s, i + 1, i + Len(c)) = c

Requested ==
    {a \in Adapters : \/ a = "youtube" /\ request.youtube_url
                      \/ a = "website" /\ request.website_url
                      \/ a = "linkedin" /\ request.linkedin_url}

(***************************************************************************)
(* C1 (as stated): whenever at least one present source has a non-blank    *)
(* chunk, generate_speaker_profile invokes the synthesizer with a blob     *)
(* that contains every chunk of every present source, whatever sources are *)
(* absent (None) or failed.  The code raises on the first None source.     *)
(***************************************************************************)
C1_PresentSourcesReachSynthesizer ==
    (gsp.called /\ HasContent(gsp.data)) =>
        /\ gsp.synth_called
        /\ \A i \in 1..Len(PresentChunks(gsp.data)) :
               IsSubstring(PresentChunks(gsp.data)[i], gsp.synth_input)

(***************************************************************************)
(* C2 (as stated): whenever no source contributes non-whitespace text, the *)
(* synthesizer is not invoked and the explicit no-content result is        *)
(* returned.  With a None source the code returns the message of the       *)
(* TypeError instead.                                                      *)
(***************************************************************************)
C2_NoContentGivesNoTextResult ==
    (gsp.called /\ ~HasContent(gsp.data)) =>
        /\ ~gsp.synth_called
        /\ profile_data = NoTextError

(***************************************************************************)
(* C3 (as stated): a record is inserted only when the synthesizer produced *)
(* a profile; when synthesis was skipped, failed or gave no usable text    *)
(* the request ends in an error response and nothing is inserted.          *)
(***************************************************************************)
C3_InsertOnlyAfterSynthesis ==
    /\ inserted > 0 => (gsp.synth_called /\ profile_data = UsableProfile)
    /\ (pc = "done" /\ profile_data # UsableProfile) =>
           (response = "error" /\ inserted = 0)

(***************************************************************************)
(* C4: an exception in the processing of one PDF or in one adapter is      *)
(* contained: every pdf_url is still attempted, every requested adapter is *)
(* still invoked, create_profile cannot answer or stop before it has       *)
(* called generate_speaker_profile, and the data it passes is exactly what *)
(* the calls that returned normally produced.                              *)
(***************************************************************************)
C4_AdaptersIsolated ==
    /\ (pc \in {"save", "respond", "done"} \/ response # "none") => gsp.called
    /\ ~gsp.called => ENABLED Next
    /\ gsp.called =>
          /\ Len(trace.pdf_outcomes) = request.n_pdfs
          /\ trace.invoked = Requested
          /\ gsp.data = trace.produced

C4_Witness ==
    /\ gsp.called
    /\ trace.pdf_outcomes = <<"raised", "ok">>
    /\ "youtube" \in trace.raised
    /\ "linkedin" \in trace.raised
    /\ gsp.data.pdf_text # <<>>
    /\ ChunksOf(gsp.data.website_text) # <<>>

(***************************************************************************)
(* C5: when generate_speaker_profile has built its blob, the blob is every *)
(* PDF chunk, then every YouTube chunk, then every website chunk, then     *)
(* every LinkedIn chunk, each in its original order and each followed by a *)
(* blank line, nothing dropped, duplicated or reordered; that blob is what *)
(* the synthesizer receives.                                               *)
(***************************************************************************)
C5_BlobListsSourcesInOrder ==
    (gsp.called /\ ~gsp.raised) =>
        LET all == PresentChunks(gsp.data)
            blob == ConcatAll([i \in 1..Len(all) |-> all[i] \o <<NL, NL>>])
        IN  /\ gsp.all_text = blob
            /\ gsp.synth_called => gsp.synth_input = blob

C5_Witness ==
    /\ gsp.synth_called
    /\ Len(gsp.data.pdf_text) = 2
    /\ gsp.data.pdf_text[1] # gsp.data.pdf_text[2]
    /\ ChunksOf(gsp.data.youtube_data) # <<>>
    /\ ChunksOf(gsp.data.website_text) # <<>>
    /\ ChunksOf(gsp.data.linkedin_data) # <<>>
    /\ ChunksOf(gsp.data.youtube_data) # ChunksOf(gsp.data.website_text)
    /\ ChunksOf(gsp.data.website_text) # ChunksOf(gsp.data.linkedin_data)

(***************************************************************************)
(* Properties of the normalizer and of the full text pipeline (SpecNorm).  *)
(***************************************************************************)
Chars(s) == {s[k] : k \in 1..Len(s)}

\* the paragraphs (lines) of all returned chunks, as <<chunk, line>> positions
OutputParagraphsEqual(p) ==
    {ck \in {<<c, k>> : c \in 1..Len(result), k \in 1..MaxAtoms + 1} :
        /\ ck[2] <= Len(Split(result[ck[1]]))
        /\ Split(result[ck[1]])[ck[2]] = p}

\* C11: when process_text_for_ai is given raw text in which the same
\* paragraph (already in normal form) stands on two different lines, that
\* paragraph appears exactly once among the paragraphs of the returned chunks.
C11_RepeatedParagraphKeptOnce ==
    op = "process_text_for_ai" =>
        \A i, j \in 1..Len(Split(text)) :
            LET p == Strip(Split(text)[i]) IN
            (/\ i < j
             /\ p # <<>>
             /\ Strip(Split(text)[j]) = p
             /\ clean_text(p) = p)
            => Cardinality(OutputParagraphsEqual(p)) = 1

\* C12: normalization is idempotent: applying clean_text to the text it
\* returned gives that text back unchanged.
C12_NormalizeIdempotent ==
    op = "clean_text" => clean_text(result[1]) = result[1]

\* a raw text with a URL in it whose normal form is not empty
C12_Witness ==
    /\ op = "clean_text"
    /\ \E i \in 1..Len(text) : UrlMatchEnd(text, i) > 0
    /\ result[1] # <<>>
    /\ result[1] # text

\* C13: the text clean_text returns holds no '<' and no '>', no position
\* where the URL pattern matches and no position where the email pattern
\* matches.
C13_NormalizedTextInvariant ==
    op = "clean_text" =>
        /\ "<" \notin Chars(result[1])
        /\ ">" \notin Chars(result[1])
        /\ \A i \in 1..Len(result[1]) :
              /\ ~ \E head \in UrlHeads : MatchesHeadAt(result[1], i, head)
              /\ EmailMatchEnd(result[1], i) = 0

\* a raw text with a tag delimiter, an '@' and a URL, with a non-empty normal form
C13_Witness ==
    /\ op = "clean_text"
    /\ "<" \in Chars(text)
    /\ "@" \in Chars(text)
    /\ result[1] # <<>>

(***************************************************************************)
(* Properties of the PDF extraction cascade (SpecPdf).                     *)
(***************************************************************************)
CascadeOrder == <<"pymupdf", "pdfplumber", "pypdf2", "is_scanned", "ocr">>

\* extract_text_from_pdf has returned
PdfReturned == pdf.pc \in {"returned", "processed"}

\* the calls that return text (all but the scanned check)
ExtractionCalls == {i \in 1..Len(pdf.calls) : pdf.calls[i].name # "is_scanned"}

\* the steps are invoked in the fixed order, a later one only after every
\* earlier extraction returned less than the threshold once stripped
InvokedInOrderAfterLowYield ==
    /\ \A i \in 1..Len(pdf.calls) : pdf.calls[i].name = CascadeOrder[i]
    /\ \A i \in ExtractionCalls : \A j \in 1..Len(pdf.calls) :
          i < j => Len(Strip(pdf.calls[i].out)) < YieldThreshold

\* C14 as stated: the steps run in the fixed order, a later one only after
\* every earlier one yielded below-threshold text, and when the primary
\* parser returns at least 100 characters the result is exactly its output
\* and no fallback step is invoked.
C14_PrimaryOfHundredCharsStopsCascade ==
    /\ InvokedInOrderAfterLowYield
    /\ (Len(pdf.calls) >= 1 /\ Len(pdf.calls[1].out) >= YieldThreshold)
       => /\ Len(pdf.calls) = 1
          /\ PdfReturned => pdf.raw_text = pdf.calls[1].out

\* C14, amended: the steps run in the fixed order, a later one only after
\* every earlier one yielded below-threshold text, and when the primary
\* parser returns text of at least 100 characters once leading and trailing
\* whitespace is stripped, the result is exactly its output and no fallback
\* step is invoked.
C14_PrimaryOfHundredStrippedCharsStopsCascade ==
    /\ InvokedInOrderAfterLowYield
    /\ (Len(pdf.calls) >= 1 /\ Len(Strip(pdf.calls[1].out)) >= YieldThreshold)
       => /\ Len(pdf.calls) = 1
          /\ PdfReturned => pdf.raw_text = pdf.calls[1].out

\* the primary parser alone was invoked and its adequate text was returned
C14_Witness ==
    /\ pdf.pc = "returned"
    /\ Len(pdf.calls) = 1
    /\ pdf.calls[1].name = "pymupdf"
    /\ Len(Strip(pdf.calls[1].out)) >= YieldThreshold
    /\ pdf.raw_text = pdf.calls[1].out

\* C15: when no invoked strategy reached the threshold, the text
\* extract_text_from_pdf returns is not shorter than the text any invoked
\* strategy returned.
C15_ResultNotShorterThanAnyOutput ==
    (/\ PdfReturned
     /\ \A i \in ExtractionCalls : BelowThreshold(pdf.calls[i].out))
    => \A i \in ExtractionCalls : Len(pdf.raw_text) >= Len(pdf.calls[i].out)

\* C16: when all four strategies were invoked and each returned empty text,
\* process_pdf_for_profile returns an empty list of chunks.
C16_EmptyExtractionGivesNoChunk ==
    (/\ pdf.pc = "processed"
     /\ Cardinality(ExtractionCalls) = 4
     /\ \A i \in ExtractionCalls : pdf.calls[i].out = <<>>)
    => pdf.processed_chunks = <<>>

\* C17: a step that raised counts as having produced empty text: once
\* extract_text_from_pdf has returned, every step that raised before the
\* last one of the cascade was followed by the next step, and if OCR raised
\* the returned text is empty.
C17_FailedStepCountsAsEmpty ==
    PdfReturned =>
        \A i \in 1..Len(pdf.calls) :
            pdf.calls[i].raised =>
                IF pdf.calls[i].name = "ocr" THEN pdf.raw_text = <<>>
                ELSE Len(pdf.calls) > i

(***************************************************************************)
(* Properties of the URL-taking adapters (SpecAdapters).                   *)
(***************************************************************************)
HttpSchemes == {<<"h", "t", "t", "p">>, <<"h", "t", "t", "p", "s">>}

HasError(value) == "error" \in DOMAIN value

\* C18: a channel URL that matches none of the four patterns makes
\* process_youtube_channel return an error value without any API call, and a
\* start URL whose scheme is not http or https makes crawl_website return an
\* error value without any fetch.
C18_MalformedUrlGivesErrorValue ==
    /\ (yt.pc = "done" /\ IsNone(extract_channel_id(yt.youtube_url)))
       => HasError(yt.result) /\ yt.api_calls = 0
    /\ (crawl.pc # "idle" /\ UrlScheme(crawl.start_url) \notin HttpSchemes)
       => /\ crawl.fetches = 0
          /\ crawl.pc = "done" => HasError(crawl.result)

\* C19: the visited set never holds more than max_pages URLs, no more than
\* max_pages fetches are made, and the reported pages_crawled is at most
\* max_pages.
C19_CrawlPageCap ==
    /\ Cardinality(crawl.visited) <= crawl.max_pages
    /\ crawl.fetches <= crawl.max_pages
    /\ (crawl.pc = "done" /\ ~HasError(crawl.result))
       => crawl.result.pages_crawled <= crawl.max_pages

\* the crawl ended on the cap with URLs still in the frontier
C19_Witness ==
    /\ crawl.pc = "done"
    /\ ~HasError(crawl.result)
    /\ crawl.max_pages = MaxCap
    /\ crawl.result.pages_crawled = crawl.max_pages
    /\ crawl.fetches = crawl.max_pages
    /\ crawl.to_visit # <<>>

\* C20: once the start URL has been taken, every important URL of the
\* frontier stands before every other URL of it, and when a discovered link
\* that is not important is about to be fetched no important URL is waiting
\* in the frontier.
C20_ImportantLinksFirst ==
    crawl.visited # {} =>
        /\ \A i, j \in 1..Len(crawl.to_visit) :
              (i < j /\ is_important_page(crawl.to_visit[j]))
              => is_important_page(crawl.to_visit[i])
        /\ (/\ crawl.pc = "fetch"
            /\ crawl.current_url # crawl.start_url
            /\ ~is_important_page(crawl.current_url))
           => \A i \in 1..Len(crawl.to_visit) : ~is_important_page(crawl.to_visit[i])

\* a frontier of three links headed by an important one that stands before
\* two ordinary ones
C20_Witness ==
    /\ crawl.visited # {}
    /\ Len(crawl.to_visit) >= 3
    /\ is_important_page(crawl.to_visit[1])
    /\ ~is_important_page(crawl.to_visit[2])
    /\ ~is_important_page(crawl.to_visit[3])

(***************************************************************************)
(* Further properties of the PDF cascade (SpecPdf) and of the scanned      *)
(* check (SpecScan).                                                       *)
(***************************************************************************)
\* C21: every temporary file that is_scanned_pdf or perform_ocr_on_pdf
\* created is gone when the function has returned, whichever step failed.
C21_NoTemporaryFileLeft ==
    /\ pdf.temp_files_left = 0
    /\ scan.temp_files_left = 0

\* the number of characters of t that are not whitespace
NonWhitespaceCount(t) == Cardinality({i \in 1..Len(t) : t[i] \notin Whitespace})

\* the calls of the three parsers
ParserCalls == {i \in 1..Len(pdf.calls) : pdf.calls[i].name \in {"pymupdf", "pdfplumber", "pypdf2"}}

\* C24: once extract_text_from_pdf has returned, a parser strategy was
\* followed by the next step of the cascade if and only if the text it
\* returned holds fewer than 100 non-whitespace characters.
C24_FallThroughIffFewNonWhitespace ==
    PdfReturned =>
        \A i \in ParserCalls :
            (Len(pdf.calls) > i) <=> (NonWhitespaceCount(pdf.calls[i].out) < YieldThreshold)

\* the text a call returned is below the cascade's threshold
LowYield(t) == Len(Strip(t)) < YieldThreshold

AllParsersLow ==
    /\ Cardinality(ParserCalls) = 3
    /\ \A i \in ParserCalls : LowYield(pdf.calls[i].out)

OcrInvoked == \E i \in 1..Len(pdf.calls) : pdf.calls[i].name = "ocr"

C26_ScannedUsesCascadeThreshold ==
    (scan.pc = "done" /\ scan.failed_at = "none")
    => (scan.result = FALSE
        <=> \E pages \in {scan.pypdf2_pages, scan.fitz_pages} :
                \E i \in 1..Len(pages) : Len(Strip(pages[i])) >= YieldThreshold)

(***************************************************************************)
(* Properties of parse_profile_text (SpecParse).                           *)
(***************************************************************************)
\* the least index from i on at which a label of the template starts
NextLabelFrom(profile_text, i) ==
    Leftmost(profile_text,
             {k \in i..Len(profile_text) :
                 \E f \in DOMAIN LabelOf : StartsWith(profile_text, k, LabelOf[f])})

\* the text from behind a label up to the next label or the end, stripped
WholeSection(profile_text, label) ==
    IF ~LabelFound(profile_text, label) THEN <<>>
    ELSE LET from == FindFrom(profile_text, label, 1) + Len(label)
         IN  Strip(SubSeq(profile_text, from, NextLabelFrom(profile_text, from) - 1))

\* C22: each field parse_profile_text returns is the text from its label up
\* to the next label of the template or the end of the text (for the list
\* fields, its comma-separated items), and the empty default when the label
\* is missing.
C22_SectionRunsToNextLabel ==
    op = "parse_profile_text" =>
        /\ result[1].name = WholeSection(text, LabelOf.name)
        /\ result[1].expertise = ItemsOf(WholeSection(text, LabelOf.expertise))
        /\ result[1].target_audience = ItemsOf(WholeSection(text, LabelOf.target_audience))
        /\ result[1].activity_summary = WholeSection(text, LabelOf.activity_summary)
        /\ result[1].personal_tone = WholeSection(text, LabelOf.personal_tone)
        /\ result[1].strengths = ItemsOf(WholeSection(text, LabelOf.strengths))

TokenNamesExistingUser ==
    /\ auth.token.given
    /\ auth.token.valid
    /\ auth.token.sub # <<>>
    /\ auth.token.sub[1] \in auth.users

\* C23: get_current_user raises HTTPException when the token is invalid or
\* the user it names is not found, and returns a User only for a valid token
\* whose subject is an existing user.
C23_UserOnlyForValidTokenOfExistingUser ==
    auth.pc = "returned" =>
        /\ (auth.token.given /\ ~TokenNamesExistingUser) => auth.result.kind = "raised"
        /\ auth.result.kind = "user" => TokenNamesExistingUser

(***************************************************************************)
(* Further properties of crawl_website (SpecAdapters, SpecAdaptersFair).   *)
(***************************************************************************)
NoDuplicate(q) == \A i, j \in 1..Len(q) : q[i] = q[j] => i = j

\* C27: in every state of a crawl the frontier holds no URL twice and no
\* URL of the visited set, and no URL has been fetched twice.
C27_EachUrlVisitedAtMostOnce ==
    /\ NoDuplicate(crawl.to_visit)
    /\ \A i \in 1..Len(crawl.to_visit) : crawl.to_visit[i] \notin crawl.visited
    /\ NoDuplicate(crawl.fetched)

\* after two fetches, with URLs waiting in the frontier, the page offers a
\* link back to a page already visited and then a link the frontier holds
C27_Witness ==
    /\ crawl.pc = "links"
    /\ Len(crawl.fetched) >= 2
    /\ Len(crawl.links) = 2
    /\ crawl.links[1] \in crawl.visited
    /\ InSeq(crawl.links[2], crawl.to_visit)

\* C28: whatever the pages link to and whether or not the fetches succeed,
\* the loop of crawl_website makes at most max_pages passes, and a crawl
\* that was started returns a result.
C28_CrawlTerminatesWithinCap ==
    /\ [](crawl.iterations <= crawl.max_pages)
    /\ (crawl.pc = "start") ~> (crawl.pc = "done" /\ crawl.result # NoCrawlResult)

\* a crawl of max_pages passes, the last fetch failed, has returned
C28_Witness ==
    /\ crawl.pc = "done"
    /\ crawl.result # NoCrawlResult
    /\ crawl.iterations = crawl.max_pages
    /\ crawl.max_pages = MaxCap
    /\ Len(crawl.extracted_content) < Len(crawl.fetched)

(***************************************************************************)
(* Properties of the storage round trip (SpecStorage).                     *)
(***************************************************************************)
\* C30: when create_profile is given the URL an upload returned, it asks
\* the storage for the path upload_file stored the PDF under, and the
\* uploaded content reaches the PDF pipeline.
C30_UploadedPdfReachesPipeline ==
    store.pc = "downloaded" =>
        /\ store.file_path = store.uploads[store.given].path
        /\ store.pdf_text = download_file(store.objects, store.uploads[store.given].path)
        /\ store.pdf_text # <<>>

====
